---- MODULE Spec2Model ----
(***************************************************************************)
(* Model of the WhatsApp webhook relay (main.js, database.js,              *)
(* similarity.js, src/schema.js).                                          *)
(*                                                                         *)
(* A turn is one run of main() (main.js:215-237) for one POST /webhook.    *)
(* Every `await` of main(), chatbot(), checkCache(), checkDatabase(),      *)
(* updateDatabase() and updateCache() is a suspension point, so each       *)
(* action below is the code that runs between two awaits.  Turns           *)
(* interleave at these points; the Redis cache and the Postgres user       *)
(* table are the only state they share.                                    *)
(***************************************************************************)
EXTENDS Integers, Sequences, FiniteSets, TLC

\* ---------------------------------------------------------------- bounds
MaxTurns == 2

Turns == 1..MaxTurns

\* ------------------------------------------------------------- constants
\* similarity.js:7   const threshold = 0.81  (as the fraction 81/100)
thresholdNum == 81
thresholdDen == 100

\* ---------------------------------------------------------------- inputs
RawIds == {"u1", "u2"}                  \* wa_id of the sender
Queries == {"capital", "capital city", "weather"}
Answers == {"a1", "a2"}                 \* final answers of the assistant
Partial == "partial"                    \* text of an unfinished assistant message
NoValue == "nil"                        \* Redis nil / JS undefined
ErrorText == "error"                    \* database.js:70

\* Status values of a run of the completion engine; "none" before the run.
TerminalBad == {"failed", "expired"}
RunStatuses == {"none", "queued", "in_progress", "completed"} \cup TerminalBad

\* Shapes of the body of a POST /webhook (main.js:207-214).
BodyKinds == {"no_object", "no_entry", "empty_entry", "no_messages",
              "message_malformed", "message"}

VARIABLES
    users,      \* Postgres table "user": sequence of [id, thread_id]
    cache,      \* Redis: key -> value, NoValue when the key is absent
    alive,      \* the Node process is running
    httpLog,    \* the last POST that started no turn, and the status answered
    verify,     \* the last GET /webhook request and what was answered
    verify_token, \* process.env.VERIFY_TOKEN
    pc,         \* per turn: the await the turn is suspended at
    req,        \* per turn: [user, text] of the payload
    ack,        \* per turn: status sent by res.sendStatus
    cres,       \* per turn: checkCache's keys, key, found and response, and
                \*           the number of keys it called similarity on
    dres,       \* per turn: result of checkDatabase [found, thread_id]
    salt,       \* per turn: salt drawn by bcrypt.hashSync (main.js:95), 0 before
    thread,     \* per turn: id of the thread created, 0 when none
    seen,       \* per turn: runStatus.status, the last status retrieved
    outbox,     \* per turn: messages handed to sendMessage, in order
    onb,        \* per turn: progress of the fs.readFile callbacks
    flags,      \* per turn: [submitted, runCreated, cached, logged, sentAtLog,
                \*            caught, answer]
    delivery,   \* the last failed delivery: [failure, logged, exited]
    sim,        \* the last call of similarity: [query, value, answer]
    reset       \* resetCache: [pc, existed, keys, pending]

vars == <<users, cache, alive, httpLog, verify, verify_token, pc, req, ack,
          cres, dres, salt, thread, seen, outbox, onb, flags, delivery, sim,
          reset>>

turnVars == <<pc, req, ack, cres, dres, salt, thread, seen, outbox, onb, flags>>

\* ------------------------------------------------------------ similarity
\* Texts similarity is called with outside a turn: their embeddings lie on,
\* just above and just below the threshold against "axis", opposite to it,
\* and at the origin.
ProbeTexts == {"axis", "axis twice", "on threshold", "above threshold",
               "below threshold", "opposite", "empty"}
Texts == Queries \cup ProbeTexts

\* The pairs of texts similarity is called with: two queries, or any text
\* against one whose embedding lies on the first axis or at the origin.
AxisTexts == {"axis", "axis twice", "empty"}
SimilarityCalls ==
    (Queries \X Queries) \cup (AxisTexts \X Texts) \cup (Texts \X AxisTexts)

\* getEmbedding (similarity.js:21-29): the provider's vector for a text.
getEmbedding(input) ==
    CASE input = "capital"         -> <<4, 3, 0, 0, 0>>
      [] input = "capital city"    -> <<3, 4, 0, 0, 0>>
      [] input = "weather"         -> <<-3, 4, 0, 0, 0>>
      [] input = "axis"            -> <<1, 0, 0, 0, 0>>
      [] input = "axis twice"      -> <<2, 0, 0, 0, 0>>
      [] input = "on threshold"    -> <<81, 58, 5, 5, 5>>
      [] input = "above threshold" -> <<82, 58, 5, 5, 5>>
      [] input = "below threshold" -> <<80, 58, 5, 5, 5>>
      [] input = "opposite"        -> <<-82, 58, 5, 5, 5>>
      [] OTHER                     -> <<0, 0, 0, 0, 0>>

\* The dot product of two vectors of one length, from index i on.
RECURSIVE DotFrom(_, _, _)
DotFrom(a, b, i) ==
    IF i > Len(a) THEN 0 ELSE a[i] * b[i] + DotFrom(a, b, i + 1)

Dot(a, b) == DotFrom(a, b, 1)

\* A comparison that also accepts a score equal to the threshold.
ScoreAtLeastThreshold(a, b) ==
    IF Dot(a, a) = 0 \/ Dot(b, b) = 0 THEN FALSE
    ELSE /\ Dot(a, b) > 0
         /\ thresholdDen * thresholdDen * Dot(a, b) * Dot(a, b)
              >= thresholdNum * thresholdNum * Dot(a, a) * Dot(b, b)

\* similarity > threshold for similarity = dot / (|a| * |b|), in integers:
\* similarity.js:40 and :60.  A zero magnitude gives NaN, and NaN > 0.81 is
\* false.
ScoreAboveThreshold(a, b) ==
    IF Dot(a, a) = 0 \/ Dot(b, b) = 0 THEN FALSE
    ELSE /\ Dot(a, b) > 0
         /\ thresholdDen * thresholdDen * Dot(a, b) * Dot(a, b)
              > thresholdNum * thresholdNum * Dot(a, a) * Dot(b, b)

\* similarity (similarity.js:51-65)
similarity(query, value) ==
    IF ScoreAboveThreshold(getEmbedding(query), getEmbedding(value))
    THEN "yes" ELSE "no"

\* ----------------------------------------------------------------- bcrypt
\* bcrypt.hashSync(data, saltRounds) draws a salt of 16 random bytes, so no
\* two calls draw the same one: the salt drawn by turn t is named t, and the
\* rows stored before the process started carry the salt 0.  The hash
\* carries the salt it was made with; bcrypt.compareSync(data, hash)
\* re-hashes data with that salt.
genSalt(t) == t

hashSync(data, s) == [raw |-> data, salt |-> s]

\* A comparison that hashes data with a salt of its own.
compareSyncResalted(data, hash) == hashSync(data, -1) = hash

compareSync(data, hash) == hashSync(data, hash.salt) = hash

\* ------------------------------------------------------------ database.js
\* The for loop of checkDatabase (database.js:28-37), from index i on, with
\* the value `found` has when the loop is entered at i.
RECURSIVE checkDatabaseLoop(_, _, _, _)
checkDatabaseLoop(target, rows, i, found) ==
    IF i > Len(rows) THEN found
    ELSE IF compareSync(target, rows[i].id) THEN TRUE
    ELSE checkDatabaseLoop(target, rows, i + 1, FALSE)

\* checkDatabase (database.js:16-40) on the rows the select returned.
\* thread_id is declared undefined at :22 and returned at :39.
checkDatabase(target, rows) ==
    [found |-> checkDatabaseLoop(target, rows, 1, FALSE), thread_id |-> NoValue]

\* The primary key of the table (src/schema.js:4): an insert of an id that
\* is already stored is rejected.
PrimaryKeyFree(rows, id) == \A i \in 1..Len(rows) : rows[i].id # id

\* An insert that leaves the thread_id column unset.
updateDatabaseNoThread(rows, user_id, user_thread_id) ==
    Append(rows, [id |-> user_id, thread_id |-> 0])

\* updateDatabase (database.js:49-60): the rows after the insert.
updateDatabase(rows, user_id, user_thread_id) ==
    Append(rows, [id |-> user_id, thread_id |-> user_thread_id])

\* A loop without the break: the index of the last similar key.
RECURSIVE checkCacheLoopNoBreak(_, _, _)
checkCacheLoopNoBreak(query, keys, i) ==
    IF i > Len(keys) THEN 0
    ELSE LET later == checkCacheLoopNoBreak(query, keys, i + 1) IN
         IF later # 0 THEN later
         ELSE IF similarity(query, keys[i]) = "yes" THEN i ELSE 0

\* The for loop of checkCache (database.js:78-90) over the keys in the order
\* client.keys returned them: the index of the key the loop breaks at, 0 when
\* it runs to the end.
RECURSIVE checkCacheLoop(_, _, _)
checkCacheLoop(query, keys, i) ==
    IF i > Len(keys) THEN 0
    ELSE IF similarity(query, keys[i]) = "yes" THEN i
    ELSE checkCacheLoop(query, keys, i + 1)

\* client.keys('*') (database.js:75): the stored keys, in an order Redis
\* does not specify.
StoredKeys(c) == {k \in DOMAIN c : c[k] # NoValue}

KeyOrders(c) ==
    {s \in [1..Cardinality(StoredKeys(c)) -> StoredKeys(c)] :
        \A i, j \in DOMAIN s : i # j => s[i] # s[j]}

\* updateCache (database.js:106-116): client.set(query, response).
updateCache(c, query, response) == [c EXCEPT ![query] = response]

\* ---------------------------------------------------------------- main.js
\* sendMessage (main.js:40-76): the message handed to the transport.
sendMessage(box, kind, message) ==
    Append(box, [kind |-> kind, text |-> message])

\* messages[0].from of a payload whose contacts[0].wa_id is user
\* (main.js:217-218): the sender's phone number.
fromOf(user) ==
    CASE user = "u1" -> "p1"
      [] user = "u2" -> "p2"
      [] OTHER       -> NoValue

\* The event sendMessage captures for the i-th message of turn t
\* (main.js:62-72).  hashSync draws a salt of its own at every call.
captureSent(user_number_id, from, t, i, message) ==
    [distinctId |-> hashSync(user_number_id, genSalt(t) + MaxTurns * i),
     event |-> "Message sent to user",
     properties |-> [from |-> from, message |-> message]]

\* The logbook chatbot hands to log (main.js:181-189); database.js:207-216
\* captures its user_id as distinctId and :238-241 prints it.
logbook(user_number_id, s, thread_id, user_exists, query_exists, question) ==
    [user_id |-> hashSync(user_number_id, s), thread_id |-> thread_id,
     user_exists |-> user_exists, query_exists |-> query_exists,
     query_message |-> question]

\* A delivery fails without a response, with a response that refuses the
\* credentials (401, 403), or with another error response.
DeliveryFailures == {"no_response", "unauthorized", "rejected"}

\* The catch of sendMessage (main.js:47-53): axios sets error.response when
\* the transport answered with an error status.
sendMessageCatch(failure) ==
    LET response == failure # "no_response" IN
    [logged |-> response, exit |-> response]

\* A main that sends the response of checkCache whatever found is.
mainTailAlways(t, box) == sendMessage(box, "cached", cres[t].response)

\* main.js:233-236, run when chatbot() has returned.
mainTail(t, box) ==
    IF cres[t].found THEN sendMessage(box, "cached", cres[t].response) ELSE box

\* A chatbot that enters the completion block whatever queryExists is.
skipsCompletionNever(queryExists) == FALSE

\* main.js:144, the branch chatbot takes on queryExists.
skipsCompletion(queryExists) == queryExists

\* The completion engine, as runs.retrieve shows it: a run is queued, then in
\* progress, then ends completed or in another terminal status.  The
\* statuses a retrieval may show when the last one showed s.
StatusAfter(s) ==
    CASE s = "queued"      -> {"queued", "in_progress", "completed"} \cup TerminalBad
      [] s = "in_progress" -> {"in_progress", "completed"} \cup TerminalBad
      [] OTHER             -> {s}

\* messages.data[0].content[0].text.value (main.js:171) of the turn's thread
\* when the run has the given status: the assistant's answer once the run
\* has completed, an unfinished assistant message while it is in progress,
\* and the user's own message before.
newestMessage(status, question, a) ==
    CASE status = "completed"   -> a
      [] status = "in_progress" -> Partial
      [] OTHER                  -> question

\* A loop that ends as soon as the run has left the queue.
pollingEndsNotQueued(status) == status # "queued"

\* main.js:162, the condition that ends the polling loop.
pollingEnds(status) == status = "completed"

\* A handler that acknowledges only the bodies without a message.
postStatusNoMessage(kind) ==
    IF kind \in {"no_entry", "no_messages"} THEN 200 ELSE 404

\* Status answered by the POST handler (main.js:207-244).
postStatus(kind) ==
    CASE kind = "no_object"   -> 404
      [] kind = "empty_entry" -> 500   \* entry[0] is undefined: TypeError
      [] OTHER                -> 200

NoTurnKinds == {"no_object", "no_entry", "empty_entry", "no_messages"}

NoFlags == [submitted |-> FALSE, runCreated |-> FALSE, cached |-> FALSE,
            logged |-> FALSE, sentAtLog |-> 0, caught |-> FALSE,
            answer |-> NoValue]
NoCacheResult == [keys |-> <<>>, scanned |-> 0, found |-> FALSE,
                  response |-> NoValue, key |-> NoValue]
NoDelivery == [failure |-> NoValue, logged |-> FALSE, exited |-> FALSE]
NoSim == [query |-> NoValue, value |-> NoValue, answer |-> NoValue]
NoReset == [pc |-> "idle", existed |-> {}, keys |-> <<>>, pending |-> NoValue]
NoDbResult == [found |-> FALSE, thread_id |-> NoValue]
NoVerify == [mode |-> NoValue, token |-> NoValue, challenge |-> NoValue,
             status |-> 0, body |-> NoValue]

\* Rows the user table may hold when the process starts.
Row(u, s, th) == [id |-> hashSync(u, s), thread_id |-> th]
InitialStores == {<<>>, <<Row("u1", 0, 101)>>}

\* Entries Redis may hold when the process starts.
EmptyCache == [k \in Queries |-> NoValue]
InitialCaches ==
    {EmptyCache,
     [EmptyCache EXCEPT !["capital"] = "a1"],
     [EmptyCache EXCEPT !["capital"] = "a1", !["capital city"] = "a2"],
     [EmptyCache EXCEPT !["capital"] = "a1", !["capital city"] = "a2",
                        !["weather"] = "a1"]}

\* process.env.VERIFY_TOKEN: set, or missing from the environment.
VerifyTokens == {"secret", NoValue}

Init ==
    /\ users \in InitialStores
    /\ cache \in InitialCaches
    /\ alive = TRUE
    /\ httpLog = [kind |-> NoValue, status |-> 0]
    /\ verify = NoVerify
    /\ verify_token \in VerifyTokens
    /\ pc = [t \in Turns |-> "idle"]
    /\ req = [t \in Turns |-> [user |-> NoValue, text |-> NoValue]]
    /\ ack = [t \in Turns |-> 0]
    /\ cres = [t \in Turns |-> NoCacheResult]
    /\ dres = [t \in Turns |-> NoDbResult]
    /\ salt = [t \in Turns |-> 0]
    /\ thread = [t \in Turns |-> 0]
    /\ seen = [t \in Turns |-> "none"]
    /\ outbox = [t \in Turns |-> <<>>]
    /\ onb = [t \in Turns |-> "none"]
    /\ flags = [t \in Turns |-> NoFlags]
    /\ delivery = NoDelivery
    /\ sim = NoSim
    /\ reset = NoReset

\* The next free turn.
NextTurn(t) == pc[t] = "idle" /\ \A u \in Turns : u < t => pc[u] # "idle"

\* POST /webhook whose body starts no turn (main.js:207-214, 240-243).
ReceiveNoTurn(kind) ==
    /\ alive
    /\ kind \in NoTurnKinds
    /\ httpLog' = [kind |-> kind, status |-> postStatus(kind)]
    /\ UNCHANGED <<reset, delivery, sim, users, cache, alive, verify, verify_token, turnVars>>

\* POST /webhook with a message whose contacts or text are missing: main()
\* throws at main.js:216-219, which rejects its promise; the handler goes on
\* to res.sendStatus(200).  Nothing handles the rejection: Node either only
\* warns or ends the process, by version and flags.
ReceiveMalformed(t, crash) ==
    /\ alive
    /\ NextTurn(t)
    /\ pc' = [pc EXCEPT ![t] = "rejected"]
    /\ ack' = [ack EXCEPT ![t] = postStatus("message_malformed")]
    /\ alive' = ~crash
    /\ UNCHANGED <<reset, delivery, sim, users, cache, httpLog, verify, verify_token, req, cres, dres,
                   salt, thread, seen, outbox, onb, flags>>

\* POST /webhook with a text message: main() runs to its first await, the
\* client.keys of checkCache (main.js:216-226, database.js:69-75), then the
\* handler sends the acknowledgment (main.js:240).
ReceiveMessage(t, user, text) ==
    /\ alive
    /\ NextTurn(t)
    /\ req' = [req EXCEPT ![t] = [user |-> user, text |-> text]]
    /\ outbox' = [outbox EXCEPT ![t] = sendMessage(@, "answering", text)]
    /\ pc' = [pc EXCEPT ![t] = "cc_keys"]
    /\ ack' = [ack EXCEPT ![t] = postStatus("message")]
    /\ UNCHANGED <<reset, delivery, sim, users, cache, alive, httpLog, verify, verify_token, cres, dres,
                   salt, thread, seen, onb, flags>>

\* checkCache, from the answer of client.keys to the return or to the
\* client.get of the matching key (database.js:75-90).  The embeddings are
\* external calls that read no state of this program.
CheckCacheScan(t, keys) ==
    /\ alive
    /\ pc[t] = "cc_keys"
    /\ keys \in KeyOrders(cache)
    /\ LET i == checkCacheLoop(req[t].text, keys, 1) IN
         IF i = 0
         THEN /\ cres' = [cres EXCEPT ![t] =
                    [keys |-> keys, scanned |-> Len(keys), found |-> FALSE,
                     response |-> ErrorText, key |-> NoValue]]
              /\ pc' = [pc EXCEPT ![t] = "check_db"]
         ELSE /\ cres' = [cres EXCEPT ![t] =
                    [keys |-> keys, scanned |-> i, found |-> TRUE,
                     response |-> ErrorText, key |-> keys[i]]]
              /\ pc' = [pc EXCEPT ![t] = "cc_get"]
    /\ UNCHANGED <<reset, delivery, sim, users, cache, alive, httpLog, verify, verify_token, req, ack,
                   dres, salt, thread, seen, outbox, onb, flags>>

\* client.get(key) answers (database.js:87); checkCache returns and main
\* calls chatbot (main.js:227-231).
CheckCacheGet(t) ==
    /\ alive
    /\ pc[t] = "cc_get"
    /\ cres' = [cres EXCEPT ![t].response = cache[cres[t].key]]
    /\ pc' = [pc EXCEPT ![t] = "check_db"]
    /\ UNCHANGED <<reset, delivery, sim, users, cache, alive, httpLog, verify, verify_token, req, ack,
                   dres, salt, thread, seen, outbox, onb, flags>>

\* Redis or the embedding provider fails inside checkCache: checkCache
\* rejects, so main() rejects at main.js:226 and nothing handles it.
CheckCacheFail(t, crash) ==
    /\ alive
    /\ pc[t] \in {"cc_keys", "cc_get"}
    /\ pc' = [pc EXCEPT ![t] = "rejected"]
    /\ alive' = ~crash
    /\ UNCHANGED <<reset, delivery, sim, users, cache, httpLog, verify, verify_token, req, ack, cres,
                   dres, salt, thread, seen, outbox, onb, flags>>

\* chatbot's catch block (main.js:191-195) and what main does when chatbot
\* has returned (main.js:233-236): the turn ends.
chatbotCaught(t) ==
    /\ flags' = [flags EXCEPT ![t].caught = TRUE]
    /\ outbox' = [outbox EXCEPT ![t] = mainTail(t, @)]
    /\ pc' = [pc EXCEPT ![t] = "done"]

\* An awaited call of chatbot rejects (the assistant lookup, the user select,
\* the thread creation, the insert, the message or run creation, a run
\* retrieval, the message listing): the catch block runs.
ChatbotFail(t) ==
    /\ alive
    /\ pc[t] \in {"check_db", "create_thread", "insert",
                  "msg_create", "run_create", "poll", "list"}
    /\ chatbotCaught(t)
    /\ UNCHANGED <<reset, delivery, sim, users, cache, alive, httpLog, verify, verify_token, req, ack,
                   cres, dres, salt, thread, seen, onb>>

\* chatbot once the thread exists (and the record, for a new user): the
\* completion block is entered (main.js:144-149), or the turn is logged and
\* chatbot returns to main (main.js:180-189, 233-236).
afterIdentity(t) ==
    IF skipsCompletion(cres[t].found)
    THEN /\ flags' = [flags EXCEPT ![t].logged = TRUE,
                                   ![t].sentAtLog = Len(outbox[t])]
         /\ outbox' = [outbox EXCEPT ![t] = mainTail(t, @)]
         /\ pc' = [pc EXCEPT ![t] = "done"]
    ELSE /\ pc' = [pc EXCEPT ![t] = "msg_create"]
         /\ UNCHANGED <<flags, outbox>>

\* assistants.retrieve has answered (main.js:91, an await that touches no
\* state) and the select of checkDatabase answers: checkDatabase scans the
\* rows and returns; chatbot hashes the identifier, starts reading the
\* onboarding files for an unknown user, and awaits threads.create
\* (database.js:26-39, main.js:94-138).
CheckDatabase(t) ==
    /\ alive
    /\ pc[t] = "check_db"
    /\ dres' = [dres EXCEPT ![t] = checkDatabase(req[t].user, users)]
    /\ salt' = [salt EXCEPT ![t] = genSalt(t)]
    /\ onb' = [onb EXCEPT ![t] = IF dres'[t].found THEN "none" ELSE "read_gdpr"]
    /\ pc' = [pc EXCEPT ![t] = "create_thread"]
    /\ UNCHANGED <<reset, delivery, sim, users, cache, alive, httpLog, verify, verify_token, req, ack,
                   cres, thread, seen, outbox, flags>>

\* threads.create answers with a fresh thread (main.js:112, 138).
CreateThread(t) ==
    /\ alive
    /\ pc[t] = "create_thread"
    /\ thread' = [thread EXCEPT ![t] = t]
    /\ IF dres[t].found
       THEN afterIdentity(t)
       ELSE /\ pc' = [pc EXCEPT ![t] = "insert"]
            /\ UNCHANGED <<flags, outbox>>
    /\ UNCHANGED <<reset, delivery, sim, users, cache, alive, httpLog, verify, verify_token, req, ack,
                   cres, dres, salt, seen, onb>>

\* The insert of updateDatabase is applied (main.js:141, database.js:56).
InsertUser(t) ==
    /\ alive
    /\ pc[t] = "insert"
    /\ PrimaryKeyFree(users, hashSync(req[t].user, salt[t]))
    /\ users' = updateDatabase(users, hashSync(req[t].user, salt[t]), thread[t])
    /\ afterIdentity(t)
    /\ UNCHANGED <<reset, delivery, sim, cache, alive, httpLog, verify, verify_token, req, ack, cres,
                   dres, salt, thread, seen, onb>>

\* threads.messages.create answers: the question is in the thread
\* (main.js:146-149).
CreateMessage(t) ==
    /\ alive
    /\ pc[t] = "msg_create"
    /\ flags' = [flags EXCEPT ![t].submitted = TRUE]
    /\ pc' = [pc EXCEPT ![t] = "run_create"]
    /\ UNCHANGED <<reset, delivery, sim, users, cache, alive, httpLog, verify, verify_token, req, ack,
                   cres, dres, salt, thread, seen, outbox, onb>>

\* threads.runs.create answers: the run is queued (main.js:152-154).
CreateRun(t) ==
    /\ alive
    /\ pc[t] = "run_create"
    /\ seen' = [seen EXCEPT ![t] = "queued"]
    /\ flags' = [flags EXCEPT ![t].runCreated = TRUE]
    /\ pc' = [pc EXCEPT ![t] = "poll"]
    /\ UNCHANGED <<reset, delivery, sim, users, cache, alive, httpLog, verify, verify_token, req, ack,
                   cres, dres, salt, thread, outbox, onb>>

\* threads.runs.retrieve answers with the status st (main.js:156-165): the
\* loop ends, or sleeps four seconds and retrieves again.
Poll(t, st) ==
    /\ alive
    /\ pc[t] = "poll"
    /\ st \in StatusAfter(seen[t])
    /\ seen' = [seen EXCEPT ![t] = st]
    /\ pc' = [pc EXCEPT ![t] = IF pollingEnds(st) THEN "list" ELSE "poll"]
    /\ UNCHANGED <<reset, delivery, sim, users, cache, alive, httpLog, verify, verify_token, req, ack,
                   cres, dres, salt, thread, outbox, onb, flags>>

\* threads.messages.list answers: the text of the newest message is sent to
\* the user and updateCache is called (main.js:168-177).  a is the answer
\* the assistant gives in this thread.
ListMessages(t, a) ==
    /\ alive
    /\ pc[t] = "list"
    /\ a \in Answers
    /\ LET chatbot_response == newestMessage(seen[t], req[t].text, a) IN
         /\ flags' = [flags EXCEPT ![t].answer = chatbot_response]
         /\ outbox' = [outbox EXCEPT ![t] = sendMessage(@, "answer", chatbot_response)]
    /\ pc' = [pc EXCEPT ![t] = "cache_set"]
    /\ UNCHANGED <<reset, delivery, sim, users, cache, alive, httpLog, verify, verify_token, req, ack,
                   cres, dres, salt, thread, seen, onb>>

\* client.set of updateCache is applied, or fails and is swallowed
\* (database.js:107-115); the turn is logged and chatbot returns.
CacheSet(t, ok) ==
    /\ alive
    /\ pc[t] = "cache_set"
    /\ cache' = IF ok THEN updateCache(cache, req[t].text, flags[t].answer) ELSE cache
    /\ flags' = [flags EXCEPT ![t].cached = ok, ![t].logged = TRUE,
                              ![t].sentAtLog = Len(outbox[t])]
    /\ outbox' = [outbox EXCEPT ![t] = mainTail(t, @)]
    /\ pc' = [pc EXCEPT ![t] = "done"]
    /\ UNCHANGED <<reset, delivery, sim, users, alive, httpLog, verify, verify_token, req, ack, cres,
                   dres, salt, thread, seen, onb>>

\* ------------------------------------------------------------ onboarding
\* The callback of fs.readFile('./GDPR.txt') runs (main.js:116-126).
OnboardGdpr(t, err) ==
    /\ alive
    /\ onb[t] = "read_gdpr"
    /\ IF err
       THEN onb' = [onb EXCEPT ![t] = "done"] /\ UNCHANGED outbox
       ELSE /\ outbox' = [outbox EXCEPT ![t] = sendMessage(@, "onboarding", "GDPR.txt")]
            /\ onb' = [onb EXCEPT ![t] = "read_howto"]
    /\ UNCHANGED <<reset, delivery, sim, users, cache, alive, httpLog, verify, verify_token, pc, req,
                   ack, cres, dres, salt, thread, seen, flags>>

\* The callback of fs.readFile('./how-to-use.txt') runs (main.js:126-134).
OnboardHowTo(t, err) ==
    /\ alive
    /\ onb[t] = "read_howto"
    /\ IF err
       THEN onb' = [onb EXCEPT ![t] = "done"] /\ UNCHANGED outbox
       ELSE /\ outbox' = [outbox EXCEPT ![t] = sendMessage(@, "onboarding", "how-to-use.txt")]
            /\ onb' = [onb EXCEPT ![t] = "done"]
    /\ UNCHANGED <<reset, delivery, sim, users, cache, alive, httpLog, verify, verify_token, pc, req,
                   ack, cres, dres, salt, thread, seen, flags>>

\* -------------------------------------------------------------- delivery
\* The delivery of one of the turn's messages fails: the catch of
\* sendMessage runs (main.js:47-53) and ends the process, or does nothing.
DeliveryFailed(t, failure) ==
    /\ alive
    /\ outbox[t] # <<>>
    /\ failure \in DeliveryFailures
    /\ delivery' = [failure |-> failure,
                    logged |-> sendMessageCatch(failure).logged,
                    exited |-> sendMessageCatch(failure).exit]
    /\ alive' = ~sendMessageCatch(failure).exit
    /\ UNCHANGED <<reset, sim, users, cache, httpLog, verify, verify_token, turnVars>>

\* ------------------------------------------------------------ similarity
\* similarity(query, value) is called and answers (similarity.js:51-65).
Similarity(query, value) ==
    /\ alive
    /\ sim' = [query |-> query, value |-> value,
               answer |-> similarity(query, value)]
    /\ UNCHANGED <<reset, delivery, users, cache, alive, httpLog, verify, verify_token,
                   turnVars>>

\* ------------------------------------------------------------ resetCache
\* resetCache is invoked (main.js:274 when enabled): it warns, connects and
\* awaits client.keys('*', callback) (database.js:139-143).
ResetCacheInvoke ==
    /\ alive
    /\ reset.pc = "idle"
    /\ reset' = [reset EXCEPT !.pc = "keys", !.existed = StoredKeys(cache)]
    /\ UNCHANGED <<delivery, sim, users, cache, alive, httpLog, verify,
                   verify_token, turnVars>>

\* client.keys answers.  On an error the callback returns and the awaited
\* promise rejects (database.js:143-144).  Otherwise the callback runs up
\* to its first await, which sends the DEL of keys[0] (database.js:145-147);
\* nothing awaits the callback, so resetCache goes on to client.disconnect()
\* and its promise resolves (database.js:151).
ResetCacheKeys(keys, err) ==
    /\ alive
    /\ reset.pc = "keys"
    /\ keys \in KeyOrders(cache)
    /\ reset' = IF err
                THEN [reset EXCEPT !.pc = "rejected"]
                ELSE [reset EXCEPT !.pc = "resolved", !.keys = keys,
                                   !.pending = IF keys = <<>> THEN NoValue
                                               ELSE keys[1]]
    /\ UNCHANGED <<delivery, sim, users, cache, alive, httpLog, verify,
                   verify_token, turnVars>>

\* The DEL that was sent before the connection closed reaches Redis.  Its
\* reply cannot arrive any more: client.del rejects, which ends the callback
\* (database.js:147).
ResetCacheDelApplied ==
    /\ reset.pending # NoValue
    /\ cache' = [cache EXCEPT ![reset.pending] = NoValue]
    /\ reset' = [reset EXCEPT !.pending = NoValue]
    /\ UNCHANGED <<delivery, sim, users, alive, httpLog, verify, verify_token,
                   turnVars>>

\* The connection closed before the DEL was written: client.del rejects
\* and the callback ends without a deletion (database.js:147, 151).
ResetCacheDelLost ==
    /\ reset.pending # NoValue
    /\ reset' = [reset EXCEPT !.pending = NoValue]
    /\ UNCHANGED <<delivery, sim, users, cache, alive, httpLog, verify,
                   verify_token, turnVars>>

\* ---------------------------------------------------------- GET /webhook
Modes == {NoValue, "", "subscribe", "unsubscribe"}
Tokens == {NoValue, "", "secret", "wrong"}
Challenges == {NoValue, "c1", "c2"}

\* JavaScript truthiness of a query parameter: absent and "" are falsy.
Truthy(x) == x # NoValue /\ x # ""

\* The handler of GET /webhook (main.js:249-269): the status and body it
\* answers; status 0 when it sends no response at all.
verifyWebhook(mode, token, challenge, secret) ==
    IF Truthy(mode) /\ Truthy(token)
    THEN IF mode = "subscribe" /\ token = secret
         THEN [status |-> 200, body |-> challenge]
         ELSE [status |-> 403, body |-> NoValue]
    ELSE [status |-> 0, body |-> NoValue]

VerifyRequest(mode, token, challenge) ==
    /\ alive
    /\ verify' = [mode |-> mode, token |-> token, challenge |-> challenge,
                  status |-> verifyWebhook(mode, token, challenge, verify_token).status,
                  body |-> verifyWebhook(mode, token, challenge, verify_token).body]
    /\ UNCHANGED <<reset, delivery, sim, users, cache, alive, httpLog, verify_token, turnVars>>

\* ------------------------------------------------------- specifications
\* The steps of main() and chatbot() for turn t.
TurnStep(t) ==
    \/ \E crash \in BOOLEAN : ReceiveMalformed(t, crash)
    \/ \E u \in RawIds, q \in Queries : ReceiveMessage(t, u, q)
    \/ \E keys \in KeyOrders(cache) : CheckCacheScan(t, keys)
    \/ CheckCacheGet(t)
    \/ \E crash \in BOOLEAN : CheckCacheFail(t, crash)
    \/ ChatbotFail(t)
    \/ CheckDatabase(t)
    \/ CreateThread(t)
    \/ InsertUser(t)
    \/ CreateMessage(t)
    \/ CreateRun(t)
    \/ \E st \in RunStatuses : Poll(t, st)
    \/ \E a \in Answers : ListMessages(t, a)
    \/ \E ok \in BOOLEAN : CacheSet(t, ok)

\* The callbacks of a turn that run beside its steps: they read and write
\* neither store.
TurnCallback(t) ==
    \/ \E e \in BOOLEAN : OnboardGdpr(t, e)
    \/ \E e \in BOOLEAN : OnboardHowTo(t, e)
    \/ \E f \in DeliveryFailures : DeliveryFailed(t, f)

\* Concurrent turns over the two stores.  The callbacks are left pending
\* here; SpecTurn runs them.
Next == \E t \in Turns : TurnStep(t)

\* No turn reads VERIFY_TOKEN: the turns run in a process that has it set,
\* here from an empty cache.
InitTurns == Init /\ verify_token = "secret" /\ cache = EmptyCache

Spec == InitTurns /\ [][Next]_vars

\* One turn with its callbacks, from a cache that may hold an entry.
NextTurnOnly == TurnStep(1) \/ TurnCallback(1)

InitTurnOnly == Init /\ verify_token = "secret"

SpecTurn == InitTurnOnly /\ [][NextTurnOnly]_vars

\* The requests that start no turn: the verification endpoint and the POSTs
\* without a message.
NextHttp ==
    \/ \E m \in Modes, tk \in Tokens, c \in Challenges : VerifyRequest(m, tk, c)
    \/ \E k \in NoTurnKinds : ReceiveNoTurn(k)

InitHttp == Init /\ cache = EmptyCache

SpecHttp == InitHttp /\ [][NextHttp]_vars

\* One lookup in a cache that holds any of the initial entries.
NextLookup ==
    \/ \E u \in RawIds, q \in Queries : ReceiveMessage(1, u, q)
    \/ \E keys \in KeyOrders(cache) : CheckCacheScan(1, keys)
    \/ CheckCacheGet(1)

SpecLookup == InitTurnOnly /\ [][NextLookup]_vars

\* resetCache beside one turn.
ResetStep ==
    \/ ResetCacheInvoke
    \/ \E keys \in KeyOrders(cache), err \in BOOLEAN : ResetCacheKeys(keys, err)
    \/ ResetCacheDelApplied
    \/ ResetCacheDelLost

NextReset == TurnStep(1) \/ ResetStep

SpecReset == InitTurnOnly /\ [][NextReset]_vars

\* Calls of similarity on pairs of texts.
NextSimilarity == \E c \in SimilarityCalls : Similarity(c[1], c[2])

SpecSimilarity == InitTurns /\ [][NextSimilarity]_vars

\* ================================================================ claims
\* The messages of a kind that turn t has handed to sendMessage.
Sent(t, kind) == {i \in DOMAIN outbox[t] : outbox[t][i].kind = kind}

\* checkCache has returned to main with found = true.
HitReported(t) == cres[t].found /\ pc[t] \notin {"idle", "cc_keys", "cc_get", "rejected"}

\* Turn u has stored response r under key k with updateCache.
StoredBy(u, k, r) == req[u].text = k /\ flags[u].cached /\ flags[u].answer = r

\* C1: in a turn for which checkCache reported a hit, no user message and no
\* run is submitted to the completion engine, no completion answer is sent,
\* the only answer text sent is the response read under the matching key,
\* which a turn stored under that key, and it is sent once when the turn ends.
C1_HitServesStoredResponse ==
    \A t \in Turns : HitReported(t) =>
        /\ ~flags[t].submitted /\ ~flags[t].runCreated
        /\ Sent(t, "answer") = {}
        /\ \A i \in Sent(t, "cached") :
              /\ outbox[t][i].text = cres[t].response
              /\ \E u \in Turns : StoredBy(u, cres[t].key, outbox[t][i].text)
        /\ Cardinality(Sent(t, "cached")) = IF pc[t] = "done" THEN 1 ELSE 0

\* A turn has ended after a hit on a key that is not its own text, and the
\* cached response has been sent.
C1_Witness ==
    \E t \in Turns :
        /\ HitReported(t) /\ pc[t] = "done"
        /\ cres[t].key # req[t].text
        /\ Sent(t, "cached") # {}

\* C2: every cache entry holds the final answer of a run that the turn which
\* stored it saw completed, for that entry's query; updateCache is not
\* called before the polling loop has seen "completed", nor with the text of
\* an unfinished message.
C2_CacheHoldsCompletedAnswers ==
    /\ \A k \in StoredKeys(cache) : \E t \in Turns :
          /\ StoredBy(t, k, cache[k])
          /\ seen[t] = "completed"
          /\ cache[k] \in Answers
    /\ \A t \in Turns : (pc[t] = "cache_set" \/ flags[t].cached) =>
          seen[t] = "completed" /\ flags[t].answer \in Answers

\* The cache holds an entry.
C2_Witness == \E t \in Turns : flags[t].cached /\ cache[req[t].text] = flags[t].answer

\* C3: once a cache entry exists, no step replaces its response or removes it.
C3_EntriesNeverReplaced ==
    [][\A k \in Queries : cache[k] # NoValue => cache'[k] = cache[k]]_vars

\* The rows of the user table whose handle was derived from raw identifier r.
RowsOf(r) == {i \in DOMAIN users : users[i].id.raw = r}

\* C4: the identity store holds at most one record per raw identifier.
C4_OneRecordPerUser == \A r \in RawIds : Cardinality(RowsOf(r)) <= 1

\* C5: checkDatabase(r) reports found exactly when the table holds a record
\* whose handle was derived from r: true once a record was created for r,
\* false for an identifier without a record, whatever other records exist.
C5_FoundIffRecordExists ==
    [][\A t \in Turns : (pc[t] = "check_db" /\ pc'[t] = "create_thread") =>
          (dres'[t].found <=> RowsOf(req[t].user) # {})]_vars

\* A turn found the user whose record another turn had inserted, while a
\* record of a different user was in the table too.
C5_Witness ==
    \E t, u \in Turns :
        /\ t # u
        /\ req[t].user = req[u].user
        /\ dres[t].found
        /\ \E i \in DOMAIN users : users[i].thread_id = thread[u] /\ thread[u] # 0
        /\ \E r \in RawIds : r # req[t].user /\ RowsOf(r) # {}

\* The thread handle of the first record that matches r.
FirstThreadOf(r) ==
    users[CHOOSE i \in RowsOf(r) : \A j \in RowsOf(r) : i <= j].thread_id

\* C6: when checkDatabase reports found, the thread_id it returns is the
\* thread handle of the first matching record, and it is empty only when
\* found is false.
C6_ReturnsStoredThread ==
    \A t \in Turns : (pc[t] \notin {"idle", "cc_keys", "cc_get", "rejected", "check_db"}
                      /\ dres[t].found) =>
        /\ dres[t].thread_id # NoValue
        /\ dres[t].thread_id = FirstThreadOf(req[t].user)

\* Turn t has finished the identity step of chatbot without an error.
IdentityResolved(t) ==
    \/ pc[t] \in {"msg_create", "run_create", "poll", "list", "cache_set"}
    \/ pc[t] = "done" /\ flags[t].logged

\* C7: a turn whose sender was unknown, on a hit or on a miss, has created a
\* new thread and persisted exactly one record, whose handle is derived from
\* the sender's raw identifier and whose thread handle is that thread.
C7_UnknownUserGetsRecord ==
    \A t \in Turns : (IdentityResolved(t) /\ ~dres[t].found) =>
        /\ thread[t] # 0
        /\ Cardinality({i \in DOMAIN users : users[i].thread_id = thread[t]}) = 1
        /\ \A i \in DOMAIN users : users[i].thread_id = thread[t] =>
              /\ users[i].id = hashSync(req[t].user, salt[t])
              /\ compareSync(req[t].user, users[i].id)

\* Two turns of unknown senders have ended, one on a hit and one on a miss.
C7_Witness ==
    \E t, u \in Turns :
        /\ pc[t] = "done" /\ flags[t].logged /\ ~dres[t].found /\ cres[t].found
        /\ pc[u] = "done" /\ flags[u].logged /\ ~dres[u].found /\ ~cres[u].found

\* C8: polling is bounded.  A terminal status other than "completed" never
\* changes, so a bounded loop has been left (with CompletionTimedOut) once a
\* retrieval has shown one: no turn sleeps for another poll after that.
C8_PollingBounded ==
    \A t \in Turns : ~(pc[t] = "poll" /\ seen[t] \in TerminalBad)

\* C9: a POST with a message is acknowledged with 200 as soon as the turn
\* has started, and the status stays 200 however the turn goes on.
C9_MessageAcknowledged ==
    \A t \in Turns : pc[t] # "idle" => ack[t] = 200

\* An acknowledged turn has failed: main() rejected, or chatbot caught an
\* error.
C9_Witness ==
    /\ \E t \in Turns : pc[t] = "rejected" /\ ack[t] = 200
    /\ \E t \in Turns : flags[t].caught /\ ack[t] = 200

\* C10: a verification request is answered with success and the challenge
\* exactly when the mode is "subscribe" and the token is the configured
\* secret, and with a rejection status in every other case.
C10_VerifyOrReject ==
    verify # NoVerify =>
        IF verify.mode = "subscribe" /\ verify_token # NoValue
           /\ verify.token = verify_token
        THEN verify.status = 200 /\ verify.body = verify.challenge
        ELSE verify.status \in 400..499

\* chatbot caught an error of turn t after messages.create had put the
\* question into the thread, and the turn has ended.
FailedAfterSubmission(t) ==
    pc[t] = "done" /\ flags[t].caught /\ flags[t].submitted

\* C11: a turn that fails after its query was submitted to the completion
\* engine has sent the user a message about the outcome (the answer or a
\* failure notice) when it ends.
C11_FailureReportedToUser ==
    \A t \in Turns : FailedAfterSubmission(t) =>
        \E i \in DOMAIN outbox[t] : outbox[t][i].kind \in {"answer", "failure"}

\* checkCache of turn t has rejected, which ended main().
CacheLookupFailed(t) == pc[t] = "rejected" /\ req[t].text # NoValue

\* chatbot of turn t caught an error before checkDatabase had returned.
IdentityLookupFailed(t) == flags[t].caught /\ salt[t] = 0

\* C12: a turn whose checkCache or checkDatabase failed has sent the user
\* nothing but onboarding content and has written no cache entry.
C12_LookupFailureHasNoSideEffect ==
    \A t \in Turns : (CacheLookupFailed(t) \/ IdentityLookupFailed(t)) =>
        /\ \A i \in DOMAIN outbox[t] : outbox[t][i].kind = "onboarding"
        /\ ~flags[t].cached

\* C13: a failure of the embedding provider inside the scan of checkCache
\* does not end the turn: every step that leaves a scan over stored keys
\* hands a result to chatbot, a hit only with a key that was found similar,
\* so that after a failure the turn goes on to the completion engine as for
\* a first-time query.
C13_ScanFailureFallsBackToCompletion ==
    [][\A t \in Turns : (pc[t] = "cc_keys" /\ StoredKeys(cache) # {}
                          /\ pc'[t] # "cc_keys") =>
          \/ pc'[t] = "cc_get" /\ cres'[t].found
          \/ pc'[t] = "check_db" /\ ~cres'[t].found]_vars

\* The raw identifiers of the senders: their wa_id and their phone number.
RawIdentifiers == RawIds \cup {fromOf(u) : u \in RawIds}

\* x is a handle derived from an identifier: an identifier hashed with a salt.
IsHandle(x) == x = hashSync(x.raw, x.salt)

\* The analytics events sendMessage has captured for the messages of turn t.
sentEvents(t) ==
    [i \in DOMAIN outbox[t] |->
        captureSent(req[t].user, fromOf(req[t].user), t, i, outbox[t][i].text)]

\* The record log() has captured and printed for turn t.
loggedRecord(t) ==
    logbook(req[t].user, salt[t], thread[t], dres[t].found, cres[t].found,
            req[t].text)

\* C14: no raw user identifier is in the identity store, in an analytics
\* event or in a log record: every identifier there is a derived handle.
C14_NoRawIdentifierLeaves ==
    /\ \A i \in DOMAIN users : IsHandle(users[i].id)
    /\ \A t \in Turns : \A i \in DOMAIN outbox[t] :
          /\ IsHandle(sentEvents(t)[i].distinctId)
          /\ sentEvents(t)[i].properties.from \notin RawIdentifiers
    /\ \A t \in Turns : flags[t].logged => IsHandle(loggedRecord(t).user_id)

\* C15: a turn in which chatbot caught an error is aborted: no cached
\* response is sent in it.
C15_CaughtErrorAbortsTurn ==
    \A t \in Turns : flags[t].caught => Sent(t, "cached") = {}

\* C16: a failed delivery ends the process only when the transport refused
\* the credentials; any other failure is logged and the process goes on.
C16_OnlyAuthFailureIsFatal ==
    delivery # NoDelivery =>
        /\ delivery.exited <=> delivery.failure = "unauthorized"
        /\ ~delivery.exited => delivery.logged

\* The positions of the keys that are similar to the query.
SimilarAt(query, keys) ==
    {i \in DOMAIN keys : similarity(query, keys[i]) = "yes"}

\* The scan of checkCache has ended for turn t.
Scanned(t) == pc[t] \in {"cc_get", "check_db"}

\* C17: checkCache scans the stored keys in the order the store returned
\* them; it reports found exactly when some key is similar to the query, with
\* the first similar key of that order, calls similarity on no key after it,
\* and returns the response stored under that key.
C17_FirstMatchWins ==
    \A t \in Turns : Scanned(t) =>
        LET ks == cres[t].keys
            m == SimilarAt(req[t].text, ks)
        IN /\ ks \in KeyOrders(cache)
           /\ cres[t].found <=> m # {}
           /\ ~cres[t].found => cres[t].scanned = Len(ks)
           /\ cres[t].found =>
                /\ cres[t].scanned \in m
                /\ \A j \in m : cres[t].scanned <= j
                /\ cres[t].key = ks[cres[t].scanned]
                /\ similarity(req[t].text, cres[t].key) = "yes"
                /\ pc[t] = "check_db" => cres[t].response = cache[cres[t].key]

\* A lookup has returned a hit from a cache with two similar keys that the
\* store listed after a key that is not similar.
C17_Witness ==
    \E t \in Turns :
        /\ pc[t] = "check_db" /\ cres[t].found
        /\ Cardinality(SimilarAt(req[t].text, cres[t].keys)) >= 2
        /\ 1 \notin SimilarAt(req[t].text, cres[t].keys)
        /\ cres[t].response = cache[cres[t].key]

\* checkCache has returned a result to main in turn t.
CacheLookedUp(t) == pc[t] \notin {"idle", "cc_keys", "cc_get", "rejected"}

\* checkDatabase has returned a result to chatbot in turn t.
IdentityLookedUp(t) == salt[t] # 0

\* The messages that carry the turn's answer, cached or completed.
AnswersSent(t) == Sent(t, "cached") \cup Sent(t, "answer")

\* C18: a turn resolves the sender's identity before it looks the query up
\* in the cache, and it has sent its answer when its log record is emitted.
C18_IdentityThenCacheThenAnswerThenLog ==
    \A t \in Turns :
        /\ CacheLookedUp(t) => IdentityLookedUp(t)
        /\ flags[t].logged => \E i \in AnswersSent(t) : i <= flags[t].sentAtLog

\* C19: once the thread of an unknown sender exists, both onboarding texts
\* have been handed to sendMessage, the terms notice before the usage
\* instructions; so they precede the record and every answer too.
C19_OnboardingBeforeProceeding ==
    \A t \in Turns : (thread[t] # 0 /\ ~dres[t].found) =>
        \E i, j \in Sent(t, "onboarding") :
            /\ i < j
            /\ outbox[t][i].text = "GDPR.txt"
            /\ outbox[t][j].text = "how-to-use.txt"

\* The embeddings of the last call of similarity.
embeddedQuery == getEmbedding(sim.query)
embeddedValue == getEmbedding(sim.value)

\* The cosine of two vectors is defined: neither has magnitude zero.
CosineDefined(a, b) == Dot(a, a) # 0 /\ Dot(b, b) # 0

\* cosine(a, b) compared with thresholdNum / thresholdDen, for a defined
\* cosine: both sides of dot / (|a| |b|) ~ num / den squared, by sign.
CosineAbove(a, b) ==
    /\ Dot(a, b) > 0
    /\ (thresholdDen * Dot(a, b)) * (thresholdDen * Dot(a, b))
         > thresholdNum * thresholdNum * (Dot(a, a) * Dot(b, b))
CosineEqual(a, b) ==
    /\ Dot(a, b) > 0
    /\ (thresholdDen * Dot(a, b)) * (thresholdDen * Dot(a, b))
         = thresholdNum * thresholdNum * (Dot(a, a) * Dot(b, b))

\* C20: similarity answers "yes" exactly when the cosine of the two
\* embeddings is defined and strictly above 0.81; on a cosine of exactly
\* 0.81 and on an embedding of magnitude zero it answers "no".
C20_YesIffStrictlyAbove ==
    sim # NoSim =>
        /\ sim.answer \in {"yes", "no"}
        /\ sim.answer = "yes" <=>
              (CosineDefined(embeddedQuery, embeddedValue)
               /\ CosineAbove(embeddedQuery, embeddedValue))
        /\ (CosineDefined(embeddedQuery, embeddedValue)
            /\ CosineEqual(embeddedQuery, embeddedValue)) => sim.answer = "no"
        /\ ~CosineDefined(embeddedQuery, embeddedValue) => sim.answer = "no"

\* similarity has answered "no" on two embeddings whose cosine is exactly
\* 0.81.
C20_Witness ==
    /\ sim # NoSim
    /\ CosineDefined(embeddedQuery, embeddedValue)
    /\ CosineEqual(embeddedQuery, embeddedValue)
    /\ sim.answer = "no"

\* C21: when the promise of resetCache has resolved, no deletion is pending
\* and no key that existed at the invocation is left in the cache.
C21_ResetCacheWipesAll ==
    reset.pc = "resolved" =>
        /\ reset.pending = NoValue
        /\ \A k \in reset.existed : cache[k] = NoValue

\* C22: a turn sends at most one answer message: the cached response only
\* after checkCache reported a hit, the answer of the completion engine only
\* after it reported a miss, never both; and no message carries the
\* placeholder response that checkCache returns on a miss.
C22_AtMostOneAnswer ==
    \A t \in Turns :
        /\ Cardinality(AnswersSent(t)) <= 1
        /\ Sent(t, "cached") # {} => CacheLookedUp(t) /\ cres[t].found
        /\ Sent(t, "answer") # {} => CacheLookedUp(t) /\ ~cres[t].found
        /\ \A i \in AnswersSent(t) : outbox[t][i].text # ErrorText

\* One turn has ended on a miss with the answer of the engine as its only
\* answer message, another after it on a hit with the cached response as its
\* only one.
C22_Witness ==
    \E t, u \in Turns :
        /\ pc[t] = "done" /\ ~cres[t].found /\ cres[t].response = ErrorText
        /\ Cardinality(Sent(t, "answer")) = 1 /\ Sent(t, "cached") = {}
        /\ pc[u] = "done" /\ cres[u].found
        /\ Cardinality(Sent(u, "cached")) = 1 /\ Sent(u, "answer") = {}

====
